---------------------------- MODULE Spec2Model ----------------------------
(***************************************************************************)
(* Speech orchestration of claude-vtuber-avatar.                           *)
(*                                                                         *)
(* The repository holds three copies of speakWithVoicevox:                 *)
(*   "server"   src/src/server.ts        preemptive, AbortController       *)
(*   "electron" src/unnamed/part_003     preemptive, AbortController       *)
(*   "queue"    src/unnamed/part_004     serial promise chain              *)
(* The variable variant says which copy a behaviour runs.                  *)
(*                                                                         *)
(* JavaScript is single threaded: the code between two awaits runs         *)
(* without interleaving, so every action below is the completion of one    *)
(* await (or one event) followed by the synchronous code up to the next    *)
(* await.  fs.unlink is issued and never awaited; the model takes the file *)
(* off the disk at the point of issue.  The temp file of fs.writeFile is   *)
(* on the disk when the write completes.  A request's temp file and its    *)
(* playback process are named by the request's number.                     *)
(***************************************************************************)
EXTENDS Integers, Sequences, FiniteSets, TLC

\* Number of speak calls of one behaviour.
MaxReq == 3

Req == 1..MaxReq

Variants == {"server", "electron", "queue"}
Preemptive == {"server", "electron"}

VARIABLES
  variant,                 \* which copy of the orchestrator runs
  pc,                      \* per request: the await it is suspended at
  outcome,                 \* per request: how its speak promise settled
  aborted,                 \* per request: abortController.signal.aborted
  chainedOn,               \* per request: the promise its task was chained on (0 = Promise.resolve())
  speechQueue,             \* tail of the promise chain (0 = Promise.resolve())
  currentAbortController,  \* request owning the controller, 0 = null
  currentPlayProcess,      \* request owning the process, 0 = null
  currentTempFile,         \* request owning the file, 0 = null
  proc,                    \* per request: state of its playback process
  disk,                    \* temp files that exist
  evlog,                   \* per request: its observable events, in order
  failure,                 \* per request: the error an await of it rejected with
  quitted,                 \* the application's quit handler has run
  text,                    \* truncation: the text given to speak, as UTF-16 code units
  truncatedText,           \* truncation: the text sent to audio_query
  textPc,                  \* truncation: "input" before, "sent" after
  wavIn,                   \* duration: how the buffer was built
  buffer,                  \* duration: the bytes given to getWavDuration
  wavResult,               \* duration: what the call did
  wavPc,                   \* duration: "input" before, "done" after
  content,                 \* tailer: the chunks written to each log file
  present,                 \* tailer: the log files that exist
  initialSize,             \* tailer: the size of each file when watching started
  latestFile,              \* tailer: the most recently modified log file
  pendingEvents,           \* tailer: fs.watch notifications not yet delivered (a run of them counts once)
  appends,                 \* tailer: writes to log files since watching started
  faults,                  \* tailer: file-system calls that have failed
  processedMessages,       \* tailer: the set of uuids
  filePositions,           \* tailer: the stored offset of each file
  timers,                  \* tailer: pending timeouts, by the watcher that set them
  debounceTimer,           \* tailer: the stored handle names the newest pending timeout
  watcherCount,            \* tailer: fs.watch watchers registered on the directory
  currentSessionFile,      \* tailer: per watcher, the closure variable of its callback
  passCount,               \* tailer: read passes started so far
  passAt,                  \* tailer: where each read pass is
  awaiting,                \* tailer: passes awaiting speech, oldest call first
  forwards,                \* tailer: the messages handed to speech, in order
  lastRead,                \* tailer: per file, the end of the last range read since it became current
  crashed,                 \* tailer: the process died of an unhandled rejection
  burst,                   \* tailer: notifications delivered since the last timer callback
  wsLoaded,                \* broadcaster: the ws module is loaded and the server set up
  clients,                 \* broadcaster: the set of client sockets
  readyState,              \* broadcaster: per channel, the state of its socket
  received,                \* broadcaster: per channel, the texts sent on it, in order
  calls,                   \* broadcaster: the calls of broadcast, with the channels OPEN at each
  httpLog,                 \* POST /expression: the requests answered, with their answers
  notified,                \* directories: the watchers with an fs.watch notification not yet delivered
  owed,                    \* directories: the watchers notified since the last read pass of their directory
  speakPromise,            \* per request: the promise its speak call returned (a request's chain promise)
  hook,                    \* formatter: the hook payload given to formatClaudeMessage
  speakEvents,             \* formatter: the speakEvents of the configuration
  workHistory,             \* formatter: the work descriptions recorded
  fmtResult,               \* formatter: what formatClaudeMessage returned
  fmtPc,                   \* formatter: "input" before the call, "returned" after
  wsState,                 \* puppeteering: ws and its readyState ("null" when ws is null)
  tokenFile,               \* puppeteering: a token is saved in the token file
  authToken,               \* puppeteering: the module variable ("null", "saved" or "fresh")
  isAuthenticated,         \* puppeteering: the module variable
  connPc,                  \* puppeteering: where the connectToVTS call is
  connResult,              \* puppeteering: what the promise of connectToVTS resolved with
  lipsyncInterval,         \* lipsync: the startLipsync call whose interval runs, 0 = null
  mouthOpen,               \* lipsync: the module variable
  autoStops,               \* lipsync: the startLipsync calls whose auto-stop timeout is pending
  startCount,              \* lipsync: startLipsync calls that started an animation
  lastStop                 \* lipsync: the animation stopped last and what stopped it

vars == <<variant, pc, outcome, aborted, chainedOn, speechQueue,
          currentAbortController, currentPlayProcess, currentTempFile,
          proc, disk, evlog, failure, quitted, text, truncatedText, textPc,
          wavIn, buffer, wavResult, wavPc,
          content, present, initialSize, latestFile, pendingEvents, appends,
          faults, processedMessages, filePositions, timers, debounceTimer,
          watcherCount, currentSessionFile, passCount, passAt, awaiting,
          forwards, lastRead, crashed, burst,
          wsLoaded, clients, readyState, received, calls, httpLog,
          notified, owed, speakPromise,
          hook, speakEvents, workHistory, fmtResult, fmtPc,
          wsState, tokenFile, authToken, isAuthenticated, connPc, connResult,
          lipsyncInterval, mouthOpen, autoStops, startCount, lastStop>>

speechVars == <<variant, pc, outcome, aborted, chainedOn, speechQueue,
                currentAbortController, currentPlayProcess, currentTempFile,
                proc, disk, evlog, failure>>

textVars == <<text, truncatedText, textPc>>

wavVars == <<wavIn, buffer, wavResult, wavPc>>

\* The log directory, as the file system holds it.
dirVars == <<content, present, initialSize, latestFile, pendingEvents,
             appends, faults>>

\* The state of the session watcher.
watcherVars == <<processedMessages, filePositions, timers, debounceTimer,
                 watcherCount, currentSessionFile, passCount, passAt,
                 awaiting, forwards, lastRead, crashed, burst>>

tailVars == <<dirVars, watcherVars>>

\* The state of the broadcaster and of the expression endpoint.
castVars == <<wsLoaded, clients, readyState, received, calls, httpLog>>

\* The state outside the speech orchestrator, which its steps leave alone.
\* The notifications of several watched directories.
multiVars == <<notified, owed>>

\* The state of the other parts of the application.
\* The formatter of hook payloads.
fmtVars == <<hook, speakEvents, workHistory, fmtResult, fmtPc>>

\* The connection to the puppeteering service, and the mouth animation.
connVars == <<wsState, tokenFile, authToken, connPc, connResult>>
lipVars == <<lipsyncInterval, mouthOpen, autoStops, startCount, lastStop>>
vtsVars == <<connVars, isAuthenticated, lipVars>>

extraVars == <<multiVars, speakPromise, fmtVars, vtsVars>>

appVars == <<quitted, textVars, wavVars, tailVars, castVars, extraVars>>

\* What a step of the orchestrator in which no await rejects leaves alone.
otherVars == <<appVars, failure>>

\* Errors an await can reject with, told apart by what the catch block
\* tests.  A refused connection surfaces either with ECONNREFUSED in
\* error.message, or (global fetch of Node 18+) as TypeError "fetch failed"
\* with the refusal only in error.cause.  "status" is the Error thrown for a
\* response that is not ok (non-2xx); "Error" is any other error.
ErrorKinds == {"ECONNREFUSED", "fetch failed", "status", "Error"}

PcValues == {"idle", "queued", "query", "json", "synth", "body", "write", "play", "done"}
Outcomes == {"pending", "resolved", "cancelled", "refused", "logged", "rejected"}
ProcValues == {"none", "alive", "killed", "errored", "closed"}
Events == {"artifact", "start", "spawn", "kill", "error", "close", "stop"}

\* Awaits of network calls that carry the abort signal.
AbortableAwaits == {"query", "json", "synth", "body"}
\* Awaits inside the try block that can reject.
FailingAwaits == {"query", "json", "synth", "body", "write"}

\* Most writes to log files after watching started, most read passes, most
\* failing file-system calls, and most watchers registered on the directory.
MaxAppends == 2
MaxPass == 2
MaxFaults == 1
MaxWatchers == 2

Pass == 1..MaxPass
Watchers == 1..MaxWatchers

\* The .jsonl files of the watched project directory, and null.
SHORT_MESSAGE_THRESHOLD == 100

\* data.message: its length (0 when missing or empty) and the keyword of
\* EXPRESSION_KEYWORDS it contains, if any.
HookMessages ==
  {[len |-> 0, kw |-> "none"]} \cup
  [len : {SHORT_MESSAGE_THRESHOLD - 1, SHORT_MESSAGE_THRESHOLD},
   kw : {"none", "error", "done"}]

\* data.tool_name; Other is a tool without message template.
Tools == {"Write", "Glob", "Bash", "Other"}

\* A hook payload: the fields formatClaudeMessage reads.
HookData ==
  [hook_event_name : {"AssistantMessage", "SessionStart", "SessionEnd",
                      "PermissionRequest", "PostToolUse"},
   message : HookMessages,
   tool_name : Tools \cup {"none"},
   file_path : BOOLEAN,
   command : {"none", "npm test", "ls"},
   tool_error : BOOLEAN]

NoHook ==
  [hook_event_name |-> "PostToolUse", message |-> [len |-> 0, kw |-> "none"],
   tool_name |-> "none", file_path |-> FALSE, command |-> "none",
   tool_error |-> FALSE]

\* The messages formatClaudeMessage returns, by their origin.
Spoken == {"message", "fallback", "tool", "start", "end", "permission",
           "errorTest", "errorBash"}

\* Calls of startLipsync that start an animation.
MaxStarts == 3

\* No animation has been stopped.
NoStop == [anim |-> 0, by |-> "none", timer |-> 0]

\* Calls of broadcast, and requests to the expression endpoint.
MaxCalls == 2

\* The WebSocket connections a run sees.
Channels == {"c1", "c2"}

EXPRESSION_DURATION_MS == 3000
LipsyncDuration == 2000

\* !name: a request without a name, or with an empty one.
Missing == ""
\* The names requests carry; wink is no expression.
Names == {"smile", "suprise", "surprise", "wink", Missing}
\* duration || ...: a request without duration, or with duration 0.
NoDuration == 0
Durations == {NoDuration, 500}

\* The expressions the formatter detects or sets.
Detected == {"shock", "smile", "eye_sparkle", "suprise", "surprise", "normal"}

\* The objects given to broadcast.  A JSON text is represented by the
\* object it encodes.
Messages ==
  [type : {"expression"}, name : Names \cup Detected,
   duration : Durations \cup {EXPRESSION_DURATION_MS}]
  \cup [type : {"lipsync-start"}, duration : {LipsyncDuration}]
  \cup {[type |-> "lipsync-stop"]}

Files == {"a.jsonl", "b.jsonl"}
NoFile == "null"

\* The uuids of the lines written after watching started, and of the line
\* a file may hold before.
Uuids == {"u1", "u2"}
PreUuid(f) == IF f = "a.jsonl" THEN "a0" ELSE "b0"
\* data.uuid of a line that has no uuid field.
NoUuid == "undefined"
AllUuids == Uuids \cup {PreUuid(f) : f \in Files} \cup {NoUuid}

\* Strings of the log lines, as code units: "hi", "yo", "hm", and "".
Hi == <<104, 105>>
Yo == <<121, 111>>
Hm == <<104, 109>>
Empty == <<>>

\* A content segment of a message; a missing text is the empty text.
Segments == [type : {"text", "thinking"}, text : {Hi, Yo, Empty}]

\* A parsed log line: type, message.role ("none" without message),
\* whether message.content is an array, and its segments.
LineOf(u, t, r, arr, segs) ==
  [uuid |-> u, type |-> t, role |-> r, isArray |-> arr, content |-> segs]

\* An assistant message with one text segment.
TextLine(u) ==
  LineOf(u, "assistant", "assistant", TRUE, <<[type |-> "text", text |-> Hi]>>)

\* A user message with one text segment.
UserLine(u) ==
  LineOf(u, "user", "user", TRUE, <<[type |-> "text", text |-> Yo]>>)

\* The shapes a JSON line of a log file may have, with up to two content
\* segments.
Shapes ==
  {LineOf("u1", t, r, arr, segs) :
     t \in {"assistant", "user"}, r \in {"assistant", "user", "none"},
     arr \in BOOLEAN,
     segs \in {<<>>} \cup {<<s>> : s \in Segments}
                \cup {<<s1, s2>> : s1 \in Segments, s2 \in Segments}}

\* An assistant message without uuid field, with one text segment.
NoUuidLine(t) ==
  LineOf(NoUuid, "assistant", "assistant", TRUE, <<[type |-> "text", text |-> t]>>)

\* The lines processes write to the log files after watching started.
LogLines == {TextLine(u) : u \in Uuids}

\* The lines a log file may hold: written whole, or in two parts.
AllLines ==
  LogLines \cup {TextLine(PreUuid(f)) : f \in Files} \cup Shapes
    \cup {NoUuidLine(t) : t \in {Hi, Yo}}
Chunks == [line : AllLines, part : {"whole", "head", "tail"}]

Items == [idx : Nat, line : AllLines]
NoItem == [idx |-> 0, line |-> TextLine("u1")]

TypeOK ==
  /\ variant \in Variants
  /\ pc \in [Req -> PcValues]
  /\ outcome \in [Req -> Outcomes]
  /\ aborted \in [Req -> BOOLEAN]
  /\ chainedOn \in [Req -> 0..MaxReq]
  /\ speechQueue \in 0..MaxReq
  /\ currentAbortController \in 0..MaxReq
  /\ currentPlayProcess \in 0..MaxReq
  /\ currentTempFile \in 0..MaxReq
  /\ proc \in [Req -> ProcValues]
  /\ disk \subseteq Req
  /\ \A r \in Req : evlog[r] \in Seq(Events)
  /\ failure \in [Req -> ErrorKinds \cup {"none", "AbortError"}]
  /\ quitted \in BOOLEAN
  /\ text \in Seq(Nat)
  /\ truncatedText \in Seq(Nat)
  /\ textPc \in {"input", "sent"}
  /\ wavIn \in [byteRate : Nat, gap : Nat, payload : Nat, tagged : BOOLEAN,
                 sampleRate : {"plain", "tagLike"}, length : Nat]
  /\ buffer \in Seq(0..255)
  /\ wavResult \in [threw : BOOLEAN, value : Nat]
  /\ wavPc \in {"input", "done"}
  /\ content \in [Files -> Seq(Chunks)]
  /\ present \subseteq Files
  /\ initialSize \in [Files -> Nat]
  /\ latestFile \in Files \cup {NoFile}
  /\ pendingEvents \in Nat
  /\ appends \in 0..MaxAppends
  /\ faults \in 0..MaxFaults
  /\ processedMessages \subseteq AllUuids
  /\ filePositions \in [Files -> Nat]
  /\ timers \in Seq(Watchers)
  /\ debounceTimer \in BOOLEAN
  /\ watcherCount \in 0..MaxWatchers
  /\ currentSessionFile \in [Watchers -> Files \cup {NoFile}]
  /\ passCount \in 0..MaxPass
  /\ passAt \in [Pass -> [pc : {"idle", "speaking", "done"},
                          file : Files \cup {NoFile}, from : Nat, to : Nat,
                          rotated : BOOLEAN, lines : Seq(Items),
                          cur : Items, items : Seq(Items)]]
  /\ awaiting \in Seq(Pass)
  /\ forwards \in Seq([pass : Pass, file : Files, idx : Nat, uuid : AllUuids,
                       text : Seq(Nat)])
  /\ lastRead \in [Files -> Nat]
  /\ crashed \in BOOLEAN
  /\ burst \in Nat
  /\ wsLoaded \in BOOLEAN
  /\ clients \subseteq Channels
  /\ readyState \in [Channels -> {"NONE", "OPEN", "CLOSING", "CLOSED"}]
  /\ received \in [Channels -> Seq(Messages)]
  /\ calls \in Seq([event : Messages, open : SUBSET Channels])
  /\ httpLog \in Seq([name : Names, duration : Durations,
                       status : {200, 400}, cast : 0..MaxCalls])
  /\ notified \subseteq Watchers
  /\ owed \subseteq Watchers
  /\ speakPromise \in [Req -> {0} \cup Req]
  /\ hook \in HookData
  /\ speakEvents \in [events : SUBSET {"AssistantMessage"}, tools : SUBSET Tools]
  /\ workHistory \in Seq(Tools)
  /\ fmtResult \in {"none", "null"} \cup Spoken
  /\ fmtPc \in {"idle", "input", "returned"}
  /\ wsState \in {"null", "CONNECTING", "OPEN", "errored"}
  /\ tokenFile \in BOOLEAN
  /\ authToken \in {"null", "saved", "fresh"}
  /\ isAuthenticated \in BOOLEAN
  /\ connPc \in {"idle", "connecting", "authenticating", "requestingToken",
                  "resolved"}
  /\ connResult \in {"none", "true", "false"}
  /\ lipsyncInterval \in 0..MaxStarts
  /\ mouthOpen \in BOOLEAN
  /\ autoStops \subseteq 1..MaxStarts
  /\ startCount \in 0..MaxStarts
  /\ lastStop \in [anim : 0..MaxStarts, by : {"none", "call", "timer"},
                    timer : 0..MaxStarts]

\* No text is being truncated.
TextIdle == text = <<>> /\ truncatedText = <<>> /\ textPc = "input"

\* No speak call has been made.
OrchestratorIdle ==
  /\ pc = [r \in Req |-> "idle"]
  /\ outcome = [r \in Req |-> "pending"]
  /\ aborted = [r \in Req |-> FALSE]
  /\ chainedOn = [r \in Req |-> 0]
  /\ speechQueue = 0
  /\ currentAbortController = 0
  /\ currentPlayProcess = 0
  /\ currentTempFile = 0
  /\ proc = [r \in Req |-> "none"]
  /\ disk = {}
  /\ evlog = [r \in Req |-> <<>>]
  /\ failure = [r \in Req |-> "none"]

\* No buffer is being measured.
WavIdle ==
  /\ wavIn = [byteRate |-> 0, gap |-> 0, payload |-> 0, tagged |-> FALSE,
              sampleRate |-> "plain", length |-> 0]
  /\ buffer = <<>>
  /\ wavResult = [threw |-> FALSE, value |-> 0]
  /\ wavPc = "input"

IdlePass ==
  [pc |-> "idle", file |-> NoFile, from |-> 0, to |-> 0, rotated |-> FALSE,
   lines |-> <<>>, cur |-> NoItem, items |-> <<>>]

\* The watcher object as constructed, before any pass.
WatcherIdle ==
  /\ processedMessages = {}
  /\ timers = <<>>
  /\ debounceTimer = FALSE
  /\ passCount = 0
  /\ passAt = [p \in Pass |-> IdlePass]
  /\ awaiting = <<>>
  /\ forwards = <<>>
  /\ crashed = FALSE
  /\ burst = 0

\* No directory is watched.
TailIdle ==
  /\ content = [f \in Files |-> <<>>]
  /\ present = {}
  /\ initialSize = [f \in Files |-> 0]
  /\ latestFile = NoFile
  /\ pendingEvents = 0
  /\ appends = 0
  /\ faults = 0
  /\ filePositions = [f \in Files |-> 0]
  /\ lastRead = [f \in Files |-> 0]
  /\ watcherCount = 0
  /\ currentSessionFile = [w \in Watchers |-> NoFile]
  /\ WatcherIdle

\* No client has connected and nothing was broadcast.  The server build
\* imports ws when the module loads; the application loads it when it sets
\* its server up.
CastIdle ==
  /\ wsLoaded = (variant = "server")
  /\ clients = {}
  /\ readyState = [c \in Channels |-> "NONE"]
  /\ received = [c \in Channels |-> <<>>]
  /\ calls = <<>>
  /\ httpLog = <<>>

\* No notification of a directory is outstanding.
MultiIdle ==
  /\ notified = {}
  /\ owed = {}

\* No speak call has returned.
PromiseIdle == speakPromise = [r \in Req |-> 0]

\* formatClaudeMessage has not been called.
FmtIdle ==
  /\ hook = NoHook
  /\ speakEvents = [events |-> {}, tools |-> {}]
  /\ workHistory = <<>>
  /\ fmtResult = "none"
  /\ fmtPc = "idle"

\* No animation has been started.
LipIdle ==
  /\ lipsyncInterval = 0
  /\ mouthOpen = FALSE
  /\ autoStops = {}
  /\ startCount = 0
  /\ lastStop = NoStop

\* connectToVTS has not been called.
VtsIdle ==
  /\ wsState = "null"
  /\ tokenFile = FALSE
  /\ authToken = "null"
  /\ isAuthenticated = FALSE
  /\ connPc = "idle"
  /\ connResult = "none"
  /\ LipIdle

ExtraIdle == MultiIdle /\ PromiseIdle /\ FmtIdle /\ VtsIdle

Init ==
  /\ variant \in Variants
  /\ OrchestratorIdle
  /\ quitted = FALSE
  /\ TextIdle
  /\ WavIdle
  /\ TailIdle
  /\ CastIdle
  /\ ExtraIdle

\* Requests are numbered in the order of the speak calls.
NextCall(r) == pc[r] = "idle" /\ \A q \in Req : q < r => pc[q] # "idle"

Count(s, e) == Cardinality({i \in 1..Len(s) : s[i] = e})

(***************************************************************************)
(* stopCurrentPlayback, as called on entry of the preemptive               *)
(* speakWithVoicevox: the values of the shared state after it.             *)
(***************************************************************************)
stopAborted == [q \in Req |-> aborted[q] \/ q = currentAbortController]

stopProc ==
  IF currentPlayProcess # 0
  THEN [proc EXCEPT ![currentPlayProcess] = "killed"]
  ELSE proc

\* kill() and then notifyLipsyncStop()
stopEvlog ==
  IF currentPlayProcess # 0
  THEN [evlog EXCEPT ![currentPlayProcess] = @ \o <<"kill", "stop">>]
  ELSE evlog

stopDisk == disk \ {currentTempFile}

\* A catch block that rethrows what it does not recognise, in every copy.
catchOutcomeRethrow(v, err) ==
  IF err = "AbortError" /\ v \in Preemptive THEN "cancelled"
  ELSE IF err = "ECONNREFUSED" THEN "refused"
  ELSE "rejected"

\* A catch block without the test of error.name === "AbortError".
catchOutcomeNoAbort(v, err) ==
  IF err = "ECONNREFUSED" THEN "refused"
  ELSE IF v = "server" THEN "rejected"
  ELSE "logged"

\* A catch block that logs every error and returns, in every copy.
catchOutcomeSwallow(v, err) ==
  IF err = "AbortError" /\ v \in Preemptive THEN "cancelled"
  ELSE IF err = "ECONNREFUSED" THEN "refused"
  ELSE "logged"

(***************************************************************************)
(* The catch block of speakWithVoicevox: how the speak promise settles for *)
(* an error of the given kind.                                             *)
(***************************************************************************)
catchOutcome(v, err) ==
  CASE v = "server" ->
         IF err = "AbortError" THEN "cancelled"
         ELSE IF err = "ECONNREFUSED" THEN "refused"
         ELSE "rejected"
    [] v = "electron" ->
         IF err = "AbortError" THEN "cancelled"
         ELSE IF err = "ECONNREFUSED" THEN "refused"
         ELSE "logged"
    [] v = "queue" ->
         IF err = "ECONNREFUSED" THEN "refused" ELSE "logged"

Settle(r, o) ==
  /\ pc' = [pc EXCEPT ![r] = "done"]
  /\ outcome' = [outcome EXCEPT ![r] = o]

(***************************************************************************)
(* speakWithVoicevox, preemptive copies: entry up to the first await.      *)
(***************************************************************************)
speak(r) ==
  /\ variant \in Preemptive
  /\ NextCall(r)
  /\ aborted' = stopAborted
  /\ proc' = stopProc
  /\ evlog' = stopEvlog
  /\ disk' = stopDisk
  /\ currentPlayProcess' = 0
  /\ currentTempFile' = 0
  /\ currentAbortController' = r
  /\ pc' = [pc EXCEPT ![r] = "query"]
  /\ speakPromise' = [speakPromise EXCEPT ![r] = r]
  /\ UNCHANGED <<quitted, textVars, wavVars, tailVars, castVars, multiVars,
                 fmtVars, vtsVars, failure, variant, outcome, chainedOn, speechQueue>>

\* An enqueueSpeech that returns the tail it chained the task on.
returnedOldTail(r, old) == old

\* return speechQueue, after the assignment: the chain promise of request
\* r, not the tail old that the task was chained on.
returnedTail(r, old) == r

\* A speak call that chains its task on a fresh resolved promise instead of
\* the tail of speechQueue.
enqueueSpeechUnchained(r) ==
  /\ variant = "queue"
  /\ NextCall(r)
  /\ chainedOn' = [chainedOn EXCEPT ![r] = 0]
  /\ speechQueue' = r
  /\ pc' = [pc EXCEPT ![r] = "queued"]
  /\ speakPromise' = [speakPromise EXCEPT ![r] = returnedTail(r, speechQueue)]
  /\ UNCHANGED <<quitted, textVars, wavVars, tailVars, castVars, multiVars,
                 fmtVars, vtsVars, failure, variant, outcome, aborted, currentAbortController,
                 currentPlayProcess, currentTempFile, proc, disk, evlog>>

(***************************************************************************)
(* speakWithVoicevox, queued copy: enqueueSpeech chains the task on the    *)
(* tail of speechQueue and makes the new promise the tail.                 *)
(***************************************************************************)
enqueueSpeech(r) ==
  /\ variant = "queue"
  /\ NextCall(r)
  /\ chainedOn' = [chainedOn EXCEPT ![r] = speechQueue]
  /\ speechQueue' = r
  /\ pc' = [pc EXCEPT ![r] = "queued"]
  /\ speakPromise' = [speakPromise EXCEPT ![r] = returnedTail(r, speechQueue)]
  /\ UNCHANGED <<quitted, textVars, wavVars, tailVars, castVars, multiVars,
                 fmtVars, vtsVars, failure, variant, outcome, aborted, currentAbortController,
                 currentPlayProcess, currentTempFile, proc, disk, evlog>>

\* A chain that runs the task while the promise before it is still pending,
\* as long as that request has reached playback.
SettledEarly(q) == IF q = 0 THEN TRUE ELSE pc[q] \in {"play", "done"}

\* The promise a task is chained on has settled (the chain's catch makes
\* every settlement a fulfilment).
Settled(q) == IF q = 0 THEN TRUE ELSE pc[q] = "done"

\* .then(task): the task starts once the promise it is chained on settled.
taskStart(r) ==
  /\ variant = "queue"
  /\ pc[r] = "queued"
  /\ Settled(chainedOn[r])
  /\ pc' = [pc EXCEPT ![r] = "query"]
  /\ UNCHANGED <<otherVars, variant, outcome, aborted, chainedOn, speechQueue,
                 currentAbortController, currentPlayProcess, currentTempFile,
                 proc, disk, evlog>>


(***************************************************************************)
(* The body of speakWithVoicevox, one action per await.                    *)
(***************************************************************************)
\* if (abortController.signal.aborted) return;  -- only the preemptive
\* copies have a controller and the checks.
abortCheck(r) == variant \in Preemptive /\ aborted[r]

\* The fetches and the body reads carry signal: abort() rejects the one that
\* is pending with AbortError, so a pending await of an aborted request
\* never resolves and never fails otherwise.  fs.writeFile takes no signal.
AbortPending(r) == variant \in Preemptive /\ aborted[r] /\ pc[r] \in AbortableAwaits

\* await fetch(audio_query) resolved with queryRes.ok; queryRes.json() issued.
queryResponse(r) ==
  /\ pc[r] = "query"
  /\ ~AbortPending(r)
  /\ pc' = [pc EXCEPT ![r] = "json"]
  /\ UNCHANGED <<otherVars, variant, outcome, aborted, chainedOn, speechQueue,
                 currentAbortController, currentPlayProcess, currentTempFile,
                 proc, disk, evlog>>

\* await queryRes.json() resolved; first abort check; synthesis fetch issued.
queryJson(r) ==
  /\ pc[r] = "json"
  /\ ~AbortPending(r)
  /\ IF abortCheck(r)
     THEN Settle(r, "cancelled")
     ELSE pc' = [pc EXCEPT ![r] = "synth"] /\ UNCHANGED outcome
  /\ UNCHANGED <<otherVars, variant, aborted, chainedOn, speechQueue,
                 currentAbortController, currentPlayProcess, currentTempFile,
                 proc, disk, evlog>>

\* await fetch(synthesis) resolved with synthesisRes.ok; second (last) abort
\* check; synthesisRes.arrayBuffer() issued.
synthesisResponse(r) ==
  /\ pc[r] = "synth"
  /\ ~AbortPending(r)
  /\ IF abortCheck(r)
     THEN Settle(r, "cancelled")
     ELSE pc' = [pc EXCEPT ![r] = "body"] /\ UNCHANGED outcome
  /\ UNCHANGED <<otherVars, variant, aborted, chainedOn, speechQueue,
                 currentAbortController, currentPlayProcess, currentTempFile,
                 proc, disk, evlog>>

\* await synthesisRes.arrayBuffer() resolved; fs.writeFile(tempFile) issued.
bodyRead(r) ==
  /\ pc[r] = "body"
  /\ ~AbortPending(r)
  /\ pc' = [pc EXCEPT ![r] = "write"]
  /\ UNCHANGED <<otherVars, variant, outcome, aborted, chainedOn, speechQueue,
                 currentAbortController, currentPlayProcess, currentTempFile,
                 proc, disk, evlog>>

\* The player spawned before lipsync-start is broadcast.
PlaySequenceSpawnFirst == <<"artifact", "spawn", "start">>

\* The synchronous statements that follow the write, in source order: the
\* artifact is ready (currentTempFile = tempFile, getWavDuration), then
\* notifyLipsyncStart, then spawn.
PlaySequence == <<"artifact", "start", "spawn">>

\* await fs.writeFile resolved: record the file, broadcast lipsync-start,
\* spawn the player and wait for it.
writeFileDone(r) ==
  /\ pc[r] = "write"
  /\ disk' = disk \cup {r}
  /\ currentTempFile' = r
  /\ evlog' = [evlog EXCEPT ![r] = @ \o PlaySequence]
  /\ proc' = [proc EXCEPT ![r] = "alive"]
  /\ currentPlayProcess' = r
  /\ pc' = [pc EXCEPT ![r] = "play"]
  /\ UNCHANGED <<otherVars, variant, outcome, aborted, chainedOn, speechQueue,
                 currentAbortController>>

\* An await of a network call whose signal was aborted rejects with
\* AbortError; the catch block returns.
awaitAborted(r) ==
  /\ AbortPending(r)
  /\ Settle(r, catchOutcome(variant, "AbortError"))
  /\ failure' = [failure EXCEPT ![r] = "AbortError"]
  /\ UNCHANGED <<appVars, variant, aborted, chainedOn, speechQueue,
                 currentAbortController, currentPlayProcess, currentTempFile,
                 proc, disk, evlog>>

\* The errors an await can reject with, other than AbortError: a refused
\* connection or a non-2xx status on the two fetches, and any other error
\* (network failure, unreadable body, write error) anywhere in the try block.
ErrorsAt(p) == IF p \in {"query", "synth"} THEN ErrorKinds ELSE {"Error"}

awaitFailed(r, err) ==
  /\ pc[r] \in FailingAwaits
  /\ ~AbortPending(r)
  /\ err \in ErrorsAt(pc[r])
  /\ Settle(r, catchOutcome(variant, err))
  /\ failure' = [failure EXCEPT ![r] = err]
  /\ UNCHANGED <<appVars, variant, aborted, chainedOn, speechQueue,
                 currentAbortController, currentPlayProcess, currentTempFile,
                 proc, disk, evlog>>

(***************************************************************************)
(* Events of the playback process.                                         *)
(***************************************************************************)
\* Broadcasts of the error handler: the electron copies call
\* notifyLipsyncStop, server.ts only stops the VTube Studio lipsync.
errorBroadcast(v) == IF v = "server" THEN <<>> ELSE <<"stop">>

\* proc.on("close"): clear the handle if it is still this process, broadcast
\* lipsync-stop, unlink the file if it is still this request's, resolve.
closeHandler(r) ==
  /\ currentPlayProcess' = IF currentPlayProcess = r THEN 0 ELSE currentPlayProcess
  /\ evlog' = [evlog EXCEPT ![r] = @ \o <<"close", "stop">>]
  /\ disk' = IF currentTempFile = r THEN disk \ {r} ELSE disk
  /\ currentTempFile' = IF currentTempFile = r THEN 0 ELSE currentTempFile
  /\ IF pc[r] = "play"
     THEN Settle(r, "resolved")
     ELSE UNCHANGED <<pc, outcome>>
  /\ proc' = [proc EXCEPT ![r] = "closed"]
  /\ UNCHANGED <<otherVars, variant, aborted, chainedOn, speechQueue, currentAbortController>>

\* The player exits, by itself or after kill(), and emits close.
procClose(r) ==
  /\ proc[r] \in {"alive", "killed"}
  /\ closeHandler(r)

\* The player emits error (it could not be spawned): proc.on("error")
\* clears the handle, broadcasts, and rejects into the catch block.
procError(r) ==
  /\ proc[r] = "alive"
  /\ proc' = [proc EXCEPT ![r] = "errored"]
  /\ currentPlayProcess' = IF currentPlayProcess = r THEN 0 ELSE currentPlayProcess
  /\ evlog' = [evlog EXCEPT ![r] = @ \o <<"error">> \o errorBroadcast(variant)]
  /\ IF pc[r] = "play"
     THEN Settle(r, catchOutcome(variant, "Error"))
     ELSE UNCHANGED <<pc, outcome>>
  /\ UNCHANGED <<otherVars, variant, aborted, chainedOn, speechQueue,
                 currentAbortController, currentTempFile, disk>>

\* A process that emitted error may or may not emit close afterwards.
procCloseAfterError(r) ==
  /\ proc[r] = "errored"
  /\ closeHandler(r)

Next ==
  \/ \E r \in Req : speak(r)
  \/ \E r \in Req : enqueueSpeech(r)
  \/ \E r \in Req : taskStart(r)
  \/ \E r \in Req : queryResponse(r)
  \/ \E r \in Req : queryJson(r)
  \/ \E r \in Req : synthesisResponse(r)
  \/ \E r \in Req : bodyRead(r)
  \/ \E r \in Req : writeFileDone(r)
  \/ \E r \in Req : awaitAborted(r)
  \/ \E r \in Req : \E err \in ErrorKinds : awaitFailed(r, err)
  \/ \E r \in Req : procClose(r)
  \/ \E r \in Req : procError(r)
  \/ \E r \in Req : procCloseAfterError(r)

Spec == Init /\ [][Next]_vars

\* POST /speak and POST /speak/text: the status answered for a speak
\* promise that settled with outcome o.
speakStatus(o) == IF o = "rejected" THEN 500 ELSE 200

(***************************************************************************)
(* Shutdown.  app.on('quit') of the electron copies closes the HTTP server *)
(* (and, in part_004, the session watcher's fs watchers); it does not call *)
(* stopCurrentPlayback and touches neither the player nor the temp file.   *)
(* After it the application runs no more code; a player that was spawned   *)
(* is a separate process and is not ended by it.                           *)
(***************************************************************************)
quit ==
  /\ variant \in {"electron", "queue"}
  /\ ~quitted
  /\ quitted' = TRUE
  /\ UNCHANGED <<speechVars, textVars, wavVars, tailVars, castVars, extraVars>>

NextQuit ==
  \/ ~quitted /\ Next
  \/ quit

SpecQuit == Init /\ [][NextQuit]_vars

(***************************************************************************)
(* Truncation of the text, the first statement of the try block's          *)
(* preamble.  A string is the sequence of its UTF-16 code units: .length   *)
(* and .slice count code units.                                            *)
(***************************************************************************)
MAX_TEXT_LENGTH == 200

\* Longest input text.
MaxTextLen == 204

\* "..."
Marker == <<46, 46, 46>>

\* A letter, a kana, and a high surrogate (the first half of an emoji).
Units == <<97, 12354, 55357>>

\* Input texts: every length up to MaxTextLen, the unit at a position
\* depending on the position.
Texts ==
  {[i \in 1..n |-> Units[((i + k) % 3) + 1]] : n \in 0..MaxTextLen, k \in 0..2}

\* Truncation that also marks a text of exactly the limit.
truncateAtLimit(t) ==
  IF Len(t) >= MAX_TEXT_LENGTH THEN SubSeq(t, 1, MAX_TEXT_LENGTH) \o Marker ELSE t

\* text.length > MAX_TEXT_LENGTH ? text.slice(0, MAX_TEXT_LENGTH) + "..." : text
truncate(t) ==
  IF Len(t) > MAX_TEXT_LENGTH THEN SubSeq(t, 1, MAX_TEXT_LENGTH) \o Marker ELSE t

truncateText ==
  /\ textPc = "input"
  /\ truncatedText' = truncate(text)
  /\ textPc' = "sent"
  /\ UNCHANGED <<speechVars, quitted, text, wavVars, tailVars, castVars,
                 extraVars>>

InitText ==
  /\ variant \in Variants
  /\ OrchestratorIdle
  /\ quitted = FALSE
  /\ text \in Texts
  /\ truncatedText = <<>>
  /\ textPc = "input"
  /\ WavIdle
  /\ TailIdle
  /\ CastIdle
  /\ ExtraIdle

NextText == truncateText

SpecText == InitText /\ [][NextText]_vars

(***************************************************************************)
(* getWavDuration.  A Buffer is the sequence of its bytes; the byte at     *)
(* offset i of the code is element i + 1 of the sequence.                  *)
(***************************************************************************)
DEFAULT_AUDIO_DURATION_MS == 2000

\* Most bytes between the fixed header and the data tag.
MaxGap == 2

\* Most payload bytes.
MaxPayload == 3

\* "data", "RIFF", "WAVE", "fmt "
DataTag == <<100, 97, 116, 97>>
RiffTag == <<82, 73, 70, 70>>
WaveTag == <<87, 65, 86, 69>>
FmtTag == <<102, 109, 116, 32>>

\* The four bytes of "data" read as a little-endian number.
DataTagValue == 1635017060

LE16(n) == <<n % 256, (n \div 256) % 256>>

LE32(n) ==
  <<n % 256, (n \div 256) % 256, (n \div 65536) % 256, (n \div 16777216) % 256>>

\* Byte rates whose quotients the code's floating-point division computes
\* exactly, and zero.
ByteRates == {0, 1, 2, 4, 8}

\* The 36 bytes that precede the first chunk after "fmt ".
Header(riffSize, sampleRate, byteRate) ==
  RiffTag \o LE32(riffSize) \o WaveTag \o FmtTag \o LE32(16) \o LE16(1)
    \o LE16(1) \o LE32(sampleRate) \o LE32(byteRate) \o LE16(1) \o LE16(8)

HeaderLen == 36

\* A whole file, whose sample rate field either is plain or holds the four
\* bytes of "data": header, gap bytes, and if tagged the data chunk.
FullLen(in) == HeaderLen + in.gap + (IF in.tagged THEN 8 + in.payload ELSE 0)

FullBuffer(in) ==
  Header(FullLen(in) - 8,
         IF in.sampleRate = "plain" THEN in.byteRate ELSE DataTagValue,
         in.byteRate)
    \o [i \in 1..in.gap |-> 0]
    \o (IF in.tagged
          THEN DataTag \o LE32(in.payload) \o [i \in 1..in.payload |-> 128]
          ELSE <<>>)

\* Inputs: whole files and every truncation of one.
WavInputs ==
  {in \in [byteRate : ByteRates, gap : 0..MaxGap, payload : 0..MaxPayload,
           tagged : BOOLEAN, sampleRate : {"plain", "tagLike"},
           length : 0..(HeaderLen + MaxGap + 8 + MaxPayload)] :
     in.length <= FullLen(in)}

\* buffer.readUInt32LE(offset) throws a RangeError unless the four bytes are
\* inside the buffer.
CanRead(b, offset) == offset >= 0 /\ offset + 4 <= Len(b)

readUInt32LE(b, offset) ==
  b[offset + 1] + b[offset + 2] * 256 + b[offset + 3] * 65536
    + b[offset + 4] * 16777216

TagAt(b, i) ==
  /\ b[i + 1] = 100
  /\ b[i + 2] = 97
  /\ b[i + 3] = 116
  /\ b[i + 4] = 97

\* for (let i = 0; i < buffer.length - 8; i++): the offsets the loop visits.
ScanOffsets(b) == 0..(Len(b) - 9)

\* let dataSize = 0; set from the first offset the loop matches.
ScannedDataSize(b) ==
  LET hits == {i \in ScanOffsets(b) : TagAt(b, i)}
  IN  IF hits = {} THEN 0
      ELSE readUInt32LE(b, (CHOOSE i \in hits : \A j \in hits : i <= j) + 4)

Returned(n) == [threw |-> FALSE, value |-> n]

Thrown == [threw |-> TRUE, value |-> 0]

\* The body of the try block.
getWavDurationBody(b) ==
  IF ~CanRead(b, 24) \/ ~CanRead(b, 28) THEN Thrown
  ELSE LET byteRate == readUInt32LE(b, 28)
           dataSize == ScannedDataSize(b)
       IN  IF dataSize = 0 \/ byteRate = 0
             THEN Returned(DEFAULT_AUDIO_DURATION_MS)
             ELSE Returned((dataSize * 1000) \div byteRate)

\* The function without its catch block.
getWavDurationNoCatch(b) == getWavDurationBody(b)

getWavDuration(b) ==
  LET r == getWavDurationBody(b)
  IN  IF r.threw THEN Returned(DEFAULT_AUDIO_DURATION_MS) ELSE r

measure ==
  /\ wavPc = "input"
  /\ wavResult' = getWavDuration(buffer)
  /\ wavPc' = "done"
  /\ UNCHANGED <<speechVars, quitted, textVars, wavIn, buffer, tailVars,
                 castVars, extraVars>>

InitWav ==
  /\ variant \in Variants
  /\ OrchestratorIdle
  /\ quitted = FALSE
  /\ TextIdle
  /\ wavIn \in WavInputs
  /\ buffer = SubSeq(FullBuffer(wavIn), 1, wavIn.length)
  /\ wavResult = [threw |-> FALSE, value |-> 0]
  /\ wavPc = "input"
  /\ TailIdle
  /\ CastIdle
  /\ ExtraIdle

NextWav == measure

SpecWav == InitWav /\ [][NextWav]_vars

(***************************************************************************)
(* The session watcher: one watched project directory.  A log file is the  *)
(* sequence of the chunks written to it and an offset is a number of       *)
(* chunks.  A line is written whole, or as a head and later its tail; only *)
(* a head together with its tail parses as JSON.                           *)
(***************************************************************************)
\* What the steps of the watcher and of the log writers leave alone.
notTail == <<speechVars, quitted, textVars, wavVars, castVars, extraVars>>

Null == [null |-> TRUE, text |-> Empty]
Text(t) == [null |-> FALSE, text |-> t]

\* textParts.join('\n')
RECURSIVE JoinLines(_)
JoinLines(parts) ==
  IF Len(parts) = 1 THEN parts[1]
  ELSE parts[1] \o <<10>> \o JoinLines(Tail(parts))

\* c.type === 'text' && c.text
IsTextPart(c) == c.type = "text" /\ c.text # Empty

\* extractTextFromContent that also takes thinking segments.
extractAllSegments(line) ==
  IF ~line.isArray THEN Null
  ELSE LET parts == SelectSeq(line.content, LAMBDA c : c.text # Empty)
       IN  IF Len(parts) = 0 THEN Null
           ELSE Text(JoinLines([i \in 1..Len(parts) |-> parts[i].text]))

extractTextFromContent(line) ==
  IF ~line.isArray THEN Null
  ELSE LET parts == SelectSeq(line.content, IsTextPart)
       IN  IF Len(parts) = 0 THEN Null
           ELSE Text(JoinLines([i \in 1..Len(parts) |-> parts[i].text]))

\* The condition of the if statement in the loop of processNewLines.
Eligible(line, done) ==
  /\ line.type = "assistant"
  /\ line.role = "assistant"
  /\ line.uuid \notin done

\* The line is handed on: eligible, and if (text).
Forwardable(line, done) ==
  Eligible(line, done) /\ ~extractTextFromContent(line).null

EndsInHead(f) ==
  content[f] # <<>> /\ content[f][Len(content[f])].part = "head"

\* findLatestSessionFile(projectDir): the existing file modified last.
Latest ==
  IF latestFile \in present THEN latestFile
  ELSE IF present = {} THEN NoFile
  ELSE CHOOSE f \in present : TRUE

\* A process appends a line, or the first part of one, to a log file
\* (creating the file if need be); fs.watch will report it.
append(f, l, part) ==
  /\ appends < MaxAppends
  /\ ~EndsInHead(f)
  /\ appends' = appends + 1
  /\ content' = [content EXCEPT ![f] = Append(@, [line |-> l, part |-> part])]
  /\ present' = present \cup {f}
  /\ latestFile' = f
  /\ pendingEvents' = 1
  /\ UNCHANGED <<notTail, initialSize, faults, watcherVars>>

\* The process that wrote the first part of a line writes the rest.
complete(f) ==
  /\ EndsInHead(f)
  /\ content' = [content EXCEPT
                   ![f] = Append(@, [line |-> @[Len(@)].line, part |-> "tail"])]
  /\ latestFile' = f
  /\ pendingEvents' = 1
  /\ UNCHANGED <<notTail, present, initialSize, appends, faults, watcherVars>>

\* A process truncates a log file to nothing.
truncateFile(f) ==
  /\ appends < MaxAppends
  /\ f \in present
  /\ content[f] # <<>>
  /\ appends' = appends + 1
  /\ content' = [content EXCEPT ![f] = <<>>]
  /\ latestFile' = f
  /\ pendingEvents' = 1
  /\ UNCHANGED <<notTail, present, initialSize, faults, watcherVars>>

\* A debounce without clearTimeout.
clearTimeoutKeeps(ts, live) == ts

\* if (this.debounceTimer) clearTimeout(this.debounceTimer): the newest
\* pending timeout is removed if the handle still names one.
clearTimeout(ts, live) == IF live THEN SubSeq(ts, 1, Len(ts) - 1) ELSE ts

\* A notification for a .jsonl file is delivered: the callback of every
\* registered watcher clears the shared timer and sets its own; w is the
\* watcher called last.
watchEvent(w) ==
  /\ ~crashed
  /\ pendingEvents > 0
  /\ w <= watcherCount
  /\ pendingEvents' = pendingEvents - 1
  /\ timers' = Append(clearTimeout(timers, debounceTimer), w)
  /\ debounceTimer' = TRUE
  /\ burst' = burst + 1
  /\ UNCHANGED <<notTail, content, present, initialSize, latestFile, appends,
                 faults, processedMessages, filePositions, watcherCount,
                 currentSessionFile, passCount, passAt, awaiting, forwards,
                 lastRead, crashed>>

\* The lines that parse among chunks k..to of file f, with the offset each
\* starts at: whole lines, and heads whose tail is in the range too.
RECURSIVE Parse(_, _, _)
Parse(f, k, to) ==
  IF k > to THEN <<>>
  ELSE LET c == content[f][k]
       IN  IF c.part = "whole"
             THEN <<[idx |-> k, line |-> c.line]>> \o Parse(f, k + 1, to)
           ELSE IF c.part = "head" /\ k + 1 <= to
             THEN <<[idx |-> k, line |-> c.line]>> \o Parse(f, k + 2, to)
           ELSE Parse(f, k + 1, to)

\* The first of the items that is handed on, or 0.
FirstForwardable(items, done) ==
  LET hits == {k \in 1..Len(items) : Forwardable(items[k].line, done)}
  IN  IF hits = {} THEN 0 ELSE CHOOSE k \in hits : \A j \in hits : k <= j

\* The for loop of processNewLines, over the lines still to do, up to its
\* next await: lines that are not eligible or have no text are passed over,
\* the first other line is handed to speech and the pass suspends.
runLoop(p, at, items, done, waitq) ==
  LET k == FirstForwardable(items, done)
  IN  IF k = 0
        THEN /\ passAt' = [passAt EXCEPT ![p] =
                             [at EXCEPT !.pc = "done", !.items = <<>>]]
             /\ awaiting' = waitq
             /\ forwards' = forwards
        ELSE /\ passAt' = [passAt EXCEPT ![p] =
                             [at EXCEPT !.pc = "speaking", !.cur = items[k],
                                        !.items = SubSeq(items, k + 1, Len(items))]]
             /\ awaiting' = Append(waitq, p)
             /\ forwards' = Append(forwards,
                                   [pass |-> p, file |-> at.file,
                                    idx |-> items[k].idx,
                                    uuid |-> items[k].line.uuid,
                                    text |-> extractTextFromContent(items[k].line).text])

\* An exception in processNewLines is caught by its try block (the watcher
\* of the application) or leaves the timer callback as an unhandled
\* rejection, which ends the process (the stand-alone script).
Catches == variant = "queue"

\* processNewLines(filePath) up to its first await.  fault: "stat" the file
\* is gone when statSync runs, "read" openSync or readSync throws.
processNewLines(f, positions, reads, rotated, fault) ==
  LET size == Len(content[f])
      lastPosition == positions[f]
  IN  IF fault = "stat"
        THEN /\ faults < MaxFaults
             /\ faults' = faults + 1
             /\ present' = present \ {f}
             /\ content' = [content EXCEPT ![f] = <<>>]
             /\ filePositions' = positions
             /\ lastRead' = reads
             /\ crashed' = ~Catches
             /\ UNCHANGED <<passCount, passAt, awaiting, forwards>>
      ELSE IF size <= lastPosition
        THEN /\ fault = "none"
             /\ filePositions' = positions
             /\ lastRead' = reads
             /\ UNCHANGED <<content, present, faults, crashed, passCount,
                            passAt, awaiting, forwards>>
      ELSE IF fault = "read"
        THEN /\ faults < MaxFaults
             /\ faults' = faults + 1
             /\ filePositions' = [positions EXCEPT ![f] = size]
             /\ lastRead' = [reads EXCEPT ![f] = size]
             /\ crashed' = ~Catches
             /\ UNCHANGED <<content, present, passCount, passAt, awaiting,
                            forwards>>
      ELSE /\ passCount < MaxPass
           /\ passCount' = passCount + 1
           /\ filePositions' = [positions EXCEPT ![f] = size]
           /\ lastRead' = [reads EXCEPT ![f] = size]
           /\ runLoop(passCount + 1,
                      [IdlePass EXCEPT !.file = f, !.from = lastPosition,
                                       !.to = size, !.rotated = rotated,
                                       !.lines = Parse(f, lastPosition + 1, size)],
                      Parse(f, lastPosition + 1, size),
                      processedMessages, awaiting)
           /\ UNCHANGED <<content, present, faults, crashed>>

\* A rotation that keeps the stored offset of the adopted file.
rotatePositionKeeps(positions, f) == positions

\* this.filePositions.set(currentSessionFile, 0)
rotatePosition(positions, f) == [positions EXCEPT ![f] = 0]

\* The oldest pending timeout fires: the callback given to setTimeout by
\* watcher w.
\* The body of the timeout callback of watcher w, for which
\* findLatestSessionFile returns latest.
timeoutBody(w, latest, fault) ==
  LET rotated == latest # NoFile /\ latest # currentSessionFile[w]
      current == IF rotated THEN latest ELSE currentSessionFile[w]
      positions == IF rotated THEN rotatePosition(filePositions, latest)
                              ELSE filePositions
      reads == IF rotated THEN [lastRead EXCEPT ![latest] = 0] ELSE lastRead
  IN  /\ timers' = Tail(timers)
      /\ burst' = 0
      /\ debounceTimer' = (debounceTimer /\ Tail(timers) # <<>>)
      /\ currentSessionFile' = [currentSessionFile EXCEPT ![w] = current]
      /\ IF current # NoFile /\ current \in present
           THEN processNewLines(current, positions, reads, rotated, fault)
           ELSE /\ fault = "none"
                /\ filePositions' = positions
                /\ lastRead' = reads
                /\ UNCHANGED <<content, present, faults, crashed, passCount,
                               passAt, awaiting, forwards>>

debounceCallback(fault) ==
  /\ ~crashed
  /\ timers # <<>>
  /\ timeoutBody(Head(timers), Latest, fault)
  /\ UNCHANGED <<notTail, initialSize, latestFile, pendingEvents, appends,
                 processedMessages, watcherCount>>

\* The awaited speech of the oldest suspended pass settles: the uuid is
\* added to processedMessages and the loop goes on.
speakDone ==
  /\ ~crashed
  /\ awaiting # <<>>
  /\ LET p == Head(awaiting)
         at == passAt[p]
         done == processedMessages \cup {at.cur.line.uuid}
     IN  /\ processedMessages' = done
         /\ runLoop(p, at, at.items, done, Tail(awaiting))
  /\ UNCHANGED <<notTail, dirVars, filePositions, timers, debounceTimer,
                 watcherCount, currentSessionFile, passCount, lastRead, crashed,
                 burst>>

\* The watcher of the projects root reports the watched directory: the
\* callback of startWatching calls watchProjectDir again, which registers
\* one more watcher with its own currentSessionFile.
rootEvent ==
  /\ variant = "queue"
  /\ ~crashed
  /\ watcherCount < MaxWatchers
  /\ watcherCount' = watcherCount + 1
  /\ currentSessionFile' =
       [currentSessionFile EXCEPT ![watcherCount + 1] = Latest]
  /\ filePositions' =
       IF Latest = NoFile THEN filePositions
       ELSE [filePositions EXCEPT ![Latest] = Len(content[Latest])]
  /\ UNCHANGED <<notTail, dirVars, processedMessages, timers, debounceTimer,
                 passCount, passAt, awaiting, forwards, lastRead, crashed,
                 burst>>

\* watchProjectDir(projectDir) has run once: the most recent file is current
\* and its offset is its size.
InitTail ==
  /\ variant \in {"queue", "server"}
  /\ OrchestratorIdle
  /\ quitted = FALSE
  /\ TextIdle
  /\ WavIdle
  /\ content \in [Files -> {<<>>} \cup
                    {<<[line |-> TextLine(PreUuid(f)), part |-> "whole"]>> : f \in Files}]
  /\ \A f \in Files :
       content[f] \in {<<>>, <<[line |-> TextLine(PreUuid(f)), part |-> "whole"]>>}
  /\ present = {f \in Files : content[f] # <<>>}
  /\ present \in {{}, {"a.jsonl"}, Files}
  /\ initialSize = [f \in Files |-> Len(content[f])]
  /\ latestFile = IF present = {} THEN NoFile ELSE "a.jsonl"
  /\ pendingEvents = 0
  /\ appends = 0
  /\ faults = 0
  /\ watcherCount = 1
  /\ currentSessionFile = [w \in Watchers |-> IF w = 1 THEN latestFile ELSE NoFile]
  /\ filePositions =
       [f \in Files |-> IF f = latestFile THEN Len(content[f]) ELSE 0]
  /\ lastRead = filePositions
  /\ WatcherIdle
  /\ CastIdle
  /\ ExtraIdle

NextTail ==
  \/ \E f \in Files, l \in LogLines : append(f, l, "whole")
  \/ append("a.jsonl", TextLine("u1"), "head")
  \/ complete("a.jsonl")
  \/ truncateFile("a.jsonl")
  \/ \E w \in Watchers : watchEvent(w)
  \/ \E fault \in {"none", "stat", "read"} : debounceCallback(fault)
  \/ speakDone
  \/ rootEvent

SpecTail == InitTail /\ [][NextTail]_vars

\* What a.jsonl holds when the loop body is applied to a line l, or to two
\* different messages without uuid.
LineContents ==
  UNION {{<<[line |-> l, part |-> "whole"]>>,
          <<[line |-> l, part |-> "head"]>>,
          <<[line |-> l, part |-> "whole"],
            [line |-> TextLine("u1"), part |-> "whole"]>>} : l \in Shapes}
    \cup {<<[line |-> NoUuidLine(Hi), part |-> "whole"],
             [line |-> NoUuidLine(Yo), part |-> "whole"]>>}

(***************************************************************************)
(* Several project directories under one sessionWatcher object: watcher w  *)
(* watches the directory that holds the log file DirFile(w).               *)
(***************************************************************************)
DirFile(w) == IF w = 1 THEN "a.jsonl" ELSE "b.jsonl"

\* findLatestSessionFile(projectDir) for the directory of watcher w.
LatestIn(w) == IF DirFile(w) \in present THEN DirFile(w) ELSE NoFile

\* A process appends a line to the log file of the directory of watcher w;
\* fs.watch will report it to that watcher.
dirAppend(w, l) ==
  /\ appends < MaxAppends
  /\ appends' = appends + 1
  /\ content' = [content EXCEPT ![DirFile(w)] =
                   Append(@, [line |-> l, part |-> "whole"])]
  /\ present' = present \cup {DirFile(w)}
  /\ notified' = notified \cup {w}
  /\ UNCHANGED <<speechVars, quitted, textVars, wavVars, castVars, owed,
                 speakPromise, fmtVars, vtsVars, initialSize, latestFile, pendingEvents, faults, watcherVars>>

\* The notification is delivered to the callback of watcher w, which clears
\* the timer of the object and sets it anew.
dirEvent(w) ==
  /\ ~crashed
  /\ w \in notified
  /\ notified' = notified \ {w}
  /\ owed' = owed \cup {w}
  /\ timers' = Append(clearTimeout(timers, debounceTimer), w)
  /\ debounceTimer' = TRUE
  /\ burst' = burst + 1
  /\ UNCHANGED <<speechVars, quitted, textVars, wavVars, castVars, dirVars,
                 speakPromise, fmtVars, vtsVars, processedMessages, filePositions, watcherCount,
                 currentSessionFile, passCount, passAt, awaiting, forwards,
                 lastRead, crashed>>

\* The pending timeout fires: a read pass of the directory of the watcher
\* that set it.
dirCallback ==
  /\ ~crashed
  /\ timers # <<>>
  /\ timeoutBody(Head(timers), LatestIn(Head(timers)), "none")
  /\ owed' = owed \ {Head(timers)}
  /\ UNCHANGED <<speechVars, quitted, textVars, wavVars, castVars, notified,
                 speakPromise, fmtVars, vtsVars, initialSize, latestFile, pendingEvents, appends,
                 processedMessages, watcherCount>>

\* startWatching has called watchProjectDir for two directories, each with
\* an empty log file or none.
InitDirs ==
  /\ variant = "queue"
  /\ OrchestratorIdle
  /\ quitted = FALSE
  /\ TextIdle
  /\ WavIdle
  /\ content = [f \in Files |-> <<>>]
  /\ present \in SUBSET Files
  /\ initialSize = [f \in Files |-> 0]
  /\ latestFile = NoFile
  /\ pendingEvents = 0
  /\ appends = 0
  /\ faults = 0
  /\ watcherCount = 2
  /\ currentSessionFile = [w \in Watchers |-> IF w <= 2 THEN LatestIn(w) ELSE NoFile]
  /\ filePositions = [f \in Files |-> 0]
  /\ lastRead = filePositions
  /\ WatcherIdle
  /\ CastIdle
  /\ MultiIdle
  /\ PromiseIdle
  /\ FmtIdle
  /\ VtsIdle

NextDirs ==
  \/ \E w \in 1..2, l \in LogLines : dirAppend(w, l)
  \/ \E w \in 1..2 : dirEvent(w)
  \/ dirCallback
  \/ speakDone

SpecDirs == InitDirs /\ [][NextDirs]_vars

\* A notification is eventually delivered, a pending timeout eventually
\* fires and awaited speech eventually settles; nothing obliges a process
\* to write to a log file.
FairDirs ==
  /\ SpecDirs
  /\ \A w \in 1..2 : WF_vars(dirEvent(w))
  /\ WF_vars(dirCallback)
  /\ WF_vars(speakDone)

\* The loop body of processNewLines on lines of every shape: the watcher
\* started on the empty a.jsonl, a process has written one line (a JSON
\* line of some shape, or text that is no JSON), possibly followed by an
\* assistant line with the same uuid, and the notification is pending.
InitLine ==
  /\ variant \in {"queue", "server"}
  /\ OrchestratorIdle
  /\ quitted = FALSE
  /\ TextIdle
  /\ WavIdle
  /\ content \in {[f \in Files |-> IF f = "a.jsonl" THEN c ELSE <<>>] :
                    c \in LineContents}
  /\ present = {"a.jsonl"}
  /\ initialSize = [f \in Files |-> 0]
  /\ latestFile = "a.jsonl"
  /\ pendingEvents = 1
  /\ appends = Len(content["a.jsonl"])
  /\ faults = 0
  /\ watcherCount = 1
  /\ currentSessionFile = [w \in Watchers |-> IF w = 1 THEN "a.jsonl" ELSE NoFile]
  /\ filePositions = [f \in Files |-> 0]
  /\ lastRead = filePositions
  /\ WatcherIdle
  /\ CastIdle
  /\ ExtraIdle

NextLine ==
  \/ watchEvent(1)
  \/ debounceCallback("none")
  \/ speakDone

SpecLine == InitLine /\ [][NextLine]_vars

(***************************************************************************)
(* The broadcaster of motion events and the expression endpoint.          *)
(***************************************************************************)
notCast == <<speechVars, quitted, textVars, wavVars, tailVars, extraVars>>

\* The application sets its server up: it loads ws and creates the
\* WebSocket server and the HTTP endpoints.
setupServer ==
  /\ ~wsLoaded
  /\ wsLoaded' = TRUE
  /\ UNCHANGED <<notCast, clients, readyState, received, calls, httpLog>>

\* wss.on('connection'): an opened socket is added to the clients.
connection(c) ==
  /\ wsLoaded
  /\ readyState[c] = "NONE"
  /\ readyState' = [readyState EXCEPT ![c] = "OPEN"]
  /\ clients' = clients \cup {c}
  /\ UNCHANGED <<notCast, wsLoaded, received, calls, httpLog>>

\* A side starts the closing handshake of an open socket.
closing(c) ==
  /\ readyState[c] = "OPEN"
  /\ readyState' = [readyState EXCEPT ![c] = "CLOSING"]
  /\ UNCHANGED <<notCast, wsLoaded, clients, received, calls, httpLog>>

\* ws.on('close'): the socket is closed and removed from the clients.
close(c) ==
  /\ readyState[c] \in {"OPEN", "CLOSING"}
  /\ readyState' = [readyState EXCEPT ![c] = "CLOSED"]
  /\ clients' = clients \ {c}
  /\ UNCHANGED <<notCast, wsLoaded, received, calls, httpLog>>

\* The clients a broadcast sends to, were readyState not tested.
ReceiversAll(cs, rs) == cs

\* The clients a broadcast sends to.
Receivers(cs, rs) == {c \in cs : rs[c] = "OPEN"}

\* broadcast(message); calls records the call and the channels OPEN at it.
broadcast(message) ==
  /\ received' =
       IF ~wsLoaded THEN received
       ELSE [c \in Channels |->
               IF c \in Receivers(clients, readyState)
                 THEN Append(received[c], message) ELSE received[c]]
  /\ calls' = Append(calls, [event |-> message,
                             open |-> {c \in Channels : readyState[c] = "OPEN"}])

notifyLipsyncStart(duration) ==
  /\ Len(calls) < MaxCalls
  /\ broadcast([type |-> "lipsync-start", duration |-> duration])
  /\ UNCHANGED <<notCast, wsLoaded, clients, readyState, httpLog>>

notifyLipsyncStop ==
  /\ Len(calls) < MaxCalls
  /\ broadcast([type |-> "lipsync-stop"])
  /\ UNCHANGED <<notCast, wsLoaded, clients, readyState, httpLog>>

notifyExpression(name, duration) ==
  broadcast([type |-> "expression", name |-> name, duration |-> duration])

\* The names the endpoint accepts: the constant of the build.
EXPRESSIONS ==
  IF variant = "electron"
    THEN {"normal", "smile", "eye_sparkle", "suprise", "shock"}
    ELSE {"normal", "smile", "eye_sparkle", "surprise", "shock"}

\* POST /expression with body {name, duration}.
postExpression(name, duration) ==
  /\ wsLoaded
  /\ Len(httpLog) < MaxCalls
  /\ Len(calls) < MaxCalls
  /\ IF name = Missing \/ name \notin EXPRESSIONS
       THEN /\ httpLog' = Append(httpLog, [name |-> name, duration |-> duration,
                                           status |-> 400, cast |-> 0])
            /\ UNCHANGED <<received, calls>>
       ELSE LET durationMs == IF duration = NoDuration
                                THEN EXPRESSION_DURATION_MS ELSE duration
            IN  /\ notifyExpression(name, durationMs)
                /\ httpLog' = Append(httpLog, [name |-> name, duration |-> duration,
                                               status |-> 200,
                                               cast |-> Len(calls) + 1])
  /\ UNCHANGED <<notCast, wsLoaded, clients, readyState>>

InitCast ==
  /\ variant \in Variants
  /\ OrchestratorIdle
  /\ quitted = FALSE
  /\ TextIdle
  /\ WavIdle
  /\ TailIdle
  /\ CastIdle
  /\ ExtraIdle

NextCast ==
  \/ setupServer
  \/ \E c \in Channels : connection(c)
  \/ \E c \in Channels : closing(c)
  \/ \E c \in Channels : close(c)
  \/ notifyLipsyncStart(LipsyncDuration)
  \/ notifyLipsyncStop
  \/ \E name \in Names, duration \in Durations : postExpression(name, duration)

SpecCast == InitCast /\ [][NextCast]_vars

(***************************************************************************)
(* formatClaudeMessage: from a hook payload to the message to speak.      *)
(* A returned string is represented by its origin; convertReadings maps a  *)
(* string to a string.                                                     *)
(***************************************************************************)
\* detectExpression(message, toolName): the server build answers
\* eye_sparkle for the search tools; otherwise the first expression in
\* EXPRESSION_PRIORITY that has a keyword in the message, or normal.
detectExpression(v, kw, toolName) ==
  IF v = "server" /\ toolName = "Glob" THEN "eye_sparkle"
  ELSE IF kw = "error" THEN "shock"
  ELSE IF kw = "done" THEN "smile"
  ELSE "normal"

\* A processMessage that returns the text without the broadcast.
processMessageSilent(v, kw, toolName) == "none"

\* processMessage: the expression it broadcasts before it returns the text.
processMessage(v, kw, toolName) == detectExpression(v, kw, toolName)

\* TOOL_MESSAGES[toolName]?.(data) is a message.
HasToolMessage(data) ==
  CASE data.tool_name = "Write" -> data.file_path
    [] data.tool_name = "Glob" -> TRUE
    [] data.tool_name = "Bash" -> data.command = "npm test"
    [] OTHER -> FALSE

\* getWorkDescription(toolName, data) is a description.
HasWorkDescription(data) == HasToolMessage(data)

Outcome(n, r, h) == [notify |-> n, ret |-> r, history |-> h]

\* The branch for AssistantMessage, the same in every copy.
assistantBranch(v, data, cfg, hist) ==
  IF "AssistantMessage" \notin cfg.events THEN Outcome("none", "null", hist)
  ELSE IF data.message.len < SHORT_MESSAGE_THRESHOLD
    THEN Outcome(processMessage(v, data.message.kw, "none"), "message", hist)
  ELSE Outcome("smile", "fallback", hist)

\* formatClaudeMessage(data): the expression it broadcasts ("none" for no
\* broadcast), what it returns, and workHistory afterwards.
formatOutcome(v, data, cfg, hist) ==
  IF data.hook_event_name = "AssistantMessage" /\ data.message.len > 0
    THEN assistantBranch(v, data, cfg, hist)
  ELSE IF v = "server" THEN
    LET hist2 == IF data.tool_name # "none" /\ HasWorkDescription(data)
                   THEN Append(hist, data.tool_name) ELSE hist
    IN  IF data.tool_name # "none" /\ data.tool_name \notin cfg.tools
          THEN Outcome("none", "null", hist2)
        ELSE IF data.tool_name # "none" /\ HasToolMessage(data)
          THEN Outcome(processMessage(v, "none", data.tool_name), "tool", hist2)
        ELSE IF data.hook_event_name = "SessionStart"
          THEN Outcome("smile", "start", <<>>)
        ELSE IF data.hook_event_name = "SessionEnd"
          THEN Outcome("smile", "end", <<>>)
        ELSE Outcome("none", "null", hist2)
  ELSE IF data.hook_event_name = "SessionStart"
    THEN Outcome("smile", "start", hist)
  ELSE IF data.hook_event_name = "SessionEnd"
    THEN Outcome("smile", "end", hist)
  ELSE IF data.hook_event_name = "PermissionRequest"
    THEN Outcome(IF v = "electron" THEN "suprise" ELSE "surprise",
                 "permission", hist)
  ELSE IF v = "queue" /\ data.tool_name = "Bash" /\ data.tool_error
    THEN Outcome("shock",
                 IF data.command = "npm test" THEN "errorTest" ELSE "errorBash",
                 hist)
  ELSE Outcome("none", "null", hist)

formatClaudeMessage ==
  /\ fmtPc = "input"
  /\ LET out == formatOutcome(variant, hook, speakEvents, workHistory)
     IN  /\ fmtResult' = out.ret
         /\ workHistory' = out.history
         /\ IF out.notify = "none"
              THEN UNCHANGED <<received, calls>>
              ELSE notifyExpression(out.notify, EXPRESSION_DURATION_MS)
  /\ fmtPc' = "returned"
  /\ UNCHANGED <<speechVars, quitted, textVars, wavVars, tailVars, multiVars,
                 speakPromise, vtsVars, hook, speakEvents, wsLoaded, clients,
                 readyState, httpLog>>

InitFormat ==
  /\ variant \in Variants
  /\ OrchestratorIdle
  /\ quitted = FALSE
  /\ TextIdle
  /\ WavIdle
  /\ TailIdle
  /\ CastIdle
  /\ MultiIdle
  /\ PromiseIdle
  /\ hook \in HookData
  /\ speakEvents \in [events : SUBSET {"AssistantMessage"}, tools : {{}, Tools}]
  /\ workHistory = <<>>
  /\ fmtResult = "none"
  /\ fmtPc = "input"
  /\ VtsIdle

NextFormat == formatClaudeMessage

SpecFormat == InitFormat /\ [][NextFormat]_vars

(***************************************************************************)
(* The puppeteering client: connectToVTS with its authentication, and the  *)
(* mouth animation.  The requests of setParameter are left out: they       *)
(* change no variable of the module.                                       *)
(***************************************************************************)
notVts == <<speechVars, quitted, textVars, wavVars, tailVars, castVars,
            multiVars, speakPromise, fmtVars>>

\* The promise of connectToVTS resolves.
resolve(value) ==
  /\ connPc' = "resolved"
  /\ connResult' = value

\* connectToVTS(), up to the end of the executor.  A call made while the
\* socket of an earlier call is connecting or being torn down is left out.
connectToVTS ==
  /\ connPc \in {"idle", "resolved"}
  /\ wsState \in {"null", "OPEN"}
  /\ IF wsState = "OPEN"
       THEN /\ resolve("true")
            /\ UNCHANGED wsState
       ELSE /\ wsState' = "CONNECTING"
            /\ connPc' = "connecting"
            /\ connResult' = "none"
  /\ UNCHANGED <<notVts, tokenFile, authToken, isAuthenticated, lipVars>>

\* ws.on("open"): load the token and send the first request.
wsOpen ==
  /\ wsState = "CONNECTING"
  /\ wsState' = "OPEN"
  /\ authToken' = IF tokenFile THEN "saved" ELSE "null"
  /\ connPc' = IF tokenFile THEN "authenticating" ELSE "requestingToken"
  /\ UNCHANGED <<notVts, tokenFile, isAuthenticated, connResult, lipVars>>

\* ws.on("error"): resolve(false); the socket will close.
wsError ==
  /\ wsState \in {"CONNECTING", "OPEN"}
  /\ connPc # "resolved"
  /\ wsState' = "errored"
  /\ resolve("false")
  /\ UNCHANGED <<notVts, tokenFile, authToken, isAuthenticated, lipVars>>

\* ws.on("close").
wsClose ==
  /\ wsState \in {"OPEN", "errored"}
  /\ wsState' = "null"
  /\ isAuthenticated' = FALSE
  /\ UNCHANGED <<notVts, tokenFile, authToken, connPc, connResult, lipVars>>

\* The answer to AuthenticationRequest arrives: authenticated, or not, in
\* which case authenticate calls requestNewToken.
authResponse(authenticated) ==
  /\ connPc = "authenticating"
  /\ wsState = "OPEN"
  /\ IF authenticated
       THEN /\ isAuthenticated' = TRUE
            /\ resolve("true")
            /\ UNCHANGED authToken
       ELSE /\ authToken' = "null"
            /\ connPc' = "requestingToken"
            /\ UNCHANGED <<isAuthenticated, connResult>>
  /\ UNCHANGED <<notVts, wsState, tokenFile, lipVars>>

\* The answer to AuthenticationTokenRequest arrives: with a token, which is
\* saved and used by authenticate, or without.
tokenResponse(granted) ==
  /\ connPc = "requestingToken"
  /\ wsState = "OPEN"
  /\ IF granted
       THEN /\ authToken' = "fresh"
            /\ tokenFile' = TRUE
            /\ connPc' = "authenticating"
            /\ UNCHANGED connResult
       ELSE /\ resolve("false")
            /\ UNCHANGED <<authToken, tokenFile>>
  /\ UNCHANGED <<notVts, wsState, isAuthenticated, lipVars>>

\* The pending sendRequest rejects: no answer within the request timeout,
\* or an answer that is no JSON.  The catch block returns false.
requestFails ==
  /\ connPc \in {"authenticating", "requestingToken"}
  /\ resolve("false")
  /\ UNCHANGED <<notVts, wsState, tokenFile, authToken, isAuthenticated,
                 lipVars>>

\* stopLipsync() called by cause: the interval is cleared, the mouth shut.
stopBody(cause, timer) ==
  /\ lipsyncInterval' = 0
  /\ mouthOpen' = FALSE
  /\ lastStop' = IF lipsyncInterval = 0 THEN lastStop
                 ELSE [anim |-> lipsyncInterval, by |-> cause, timer |-> timer]

\* setTimeout(() => stopLipsync(), durationMs): nothing clears the
\* timeouts of earlier calls.
pendingAfterStart(pending, k) == pending \cup {k}

\* startLipsync(durationMs) when authenticated (otherwise it returns at
\* once): stop the animation that runs, start the interval, set the
\* auto-stop timeout.
startLipsync ==
  /\ isAuthenticated
  /\ startCount < MaxStarts
  /\ startCount' = startCount + 1
  /\ lipsyncInterval' = startCount + 1
  /\ mouthOpen' = FALSE
  /\ lastStop' = IF lipsyncInterval = 0 THEN lastStop
                 ELSE [anim |-> lipsyncInterval, by |-> "call", timer |-> 0]
  /\ autoStops' = pendingAfterStart(autoStops, startCount + 1)
  /\ UNCHANGED <<notVts, connVars, isAuthenticated>>

\* stopLipsync() called from outside.
stopLipsync ==
  /\ stopBody("call", 0)
  /\ UNCHANGED <<notVts, connVars, isAuthenticated, autoStops, startCount>>

\* The auto-stop timeout of call k fires.
autoStop(k) ==
  /\ k \in autoStops
  /\ autoStops' = autoStops \ {k}
  /\ stopBody("timer", k)
  /\ UNCHANGED <<notVts, connVars, isAuthenticated, startCount>>

\* The interval fires: the mouth toggles.
lipsyncTick ==
  /\ lipsyncInterval # 0
  /\ mouthOpen' = ~mouthOpen
  /\ UNCHANGED <<notVts, connVars, isAuthenticated, lipsyncInterval,
                 autoStops, startCount, lastStop>>

\* The module is loaded; the token file holds a token or not.
InitVts ==
  /\ variant = "server"
  /\ OrchestratorIdle
  /\ quitted = FALSE
  /\ TextIdle
  /\ WavIdle
  /\ TailIdle
  /\ CastIdle
  /\ MultiIdle
  /\ PromiseIdle
  /\ FmtIdle
  /\ wsState = "null"
  /\ tokenFile \in BOOLEAN
  /\ authToken = "null"
  /\ isAuthenticated = FALSE
  /\ connPc = "idle"
  /\ connResult = "none"
  /\ LipIdle

NextVts ==
  \/ connectToVTS
  \/ wsOpen
  \/ wsError
  \/ wsClose
  \/ \E authenticated \in BOOLEAN : authResponse(authenticated)
  \/ \E granted \in BOOLEAN : tokenResponse(granted)
  \/ requestFails
  \/ startLipsync
  \/ stopLipsync
  \/ \E k \in 1..MaxStarts : autoStop(k)
  \/ lipsyncTick

SpecVts == InitVts /\ [][NextVts]_vars

\* The socket opens or fails, and a request is answered or times out;
\* nothing obliges the service to answer in one way rather than another.
FairVts ==
  /\ SpecVts
  /\ WF_vars(wsState = "CONNECTING" /\ (wsOpen \/ wsError))
  /\ WF_vars(\/ \E authenticated \in BOOLEAN : authResponse(authenticated)
             \/ \E granted \in BOOLEAN : tokenResponse(granted)
             \/ requestFails)

(***************************************************************************)
(* Fairness: every await of a request that was started eventually         *)
(* completes (with a result or an error), a chained task eventually        *)
(* starts, and a spawned player eventually emits close or error.  Nothing  *)
(* obliges a caller to call speak, nor a process that emitted error to     *)
(* emit close as well.                                                     *)
(***************************************************************************)
Progress(r) ==
  \/ taskStart(r)
  \/ queryResponse(r)
  \/ queryJson(r)
  \/ synthesisResponse(r)
  \/ bodyRead(r)
  \/ writeFileDone(r)
  \/ awaitAborted(r)
  \/ \E err \in ErrorKinds : awaitFailed(r, err)
  \/ procClose(r)
  \/ procError(r)

FairSpec == Spec /\ \A r \in Req : WF_vars(Progress(r))

(***************************************************************************)
(* Vocabulary of the properties.                                           *)
(***************************************************************************)
ActivePc == {"query", "json", "synth", "body", "write", "play"}
Started(r) == pc[r] \notin {"idle", "queued"}
Running == {r \in Req : proc[r] = "alive"}
Starts(r) == Count(evlog[r], "start")
Stops(r) == Count(evlog[r], "stop")
\* a later speak call has been made
Superseded(a) == \E b \in Req : b > a /\ pc[b] # "idle"
\* every call made so far has settled and every player spawned has closed
AllFinished ==
  /\ pc[1] # "idle"
  /\ \A r \in Req : pc[r] \in {"idle", "done"} /\ proc[r] \in {"none", "closed"}

\* C1: preemptive orchestrator: at most one playback process spawned by
\* speak is running at any time.
C1_OnePlaybackProcess ==
  variant \in Preemptive => Cardinality(Running) <= 1

\* C2: queued orchestrator: at most one request's pipeline is active at any
\* time, at most one player runs, and a request has not begun while the
\* player of a previously enqueued request has neither closed nor errored.
C2_OnePipelineAtATime ==
  variant = "queue" =>
    /\ Cardinality({r \in Req : pc[r] \in ActivePc}) <= 1
    /\ Cardinality(Running) <= 1
    /\ \A r \in Req : pc[r] \in ActivePc =>
         \A q \in Req : q < r => proc[q] \in {"none", "errored", "closed"}

C2_Witness ==
  /\ variant = "queue"
  /\ pc[2] = "synth"
  /\ proc[1] = "closed"
  /\ pc[3] = "queued"

\* C3: queued orchestrator: requests run strictly in the order of the speak
\* calls: when the pipeline of b has started, the pipeline of every a called
\* before b has finished.
C3_ArrivalOrder ==
  variant = "queue" =>
    \A a, b \in Req : (a < b /\ Started(b)) => pc[a] = "done"

C3_Witness ==
  /\ variant = "queue"
  /\ pc[1] = "done"
  /\ pc[2] = "done"
  /\ pc[3] = "play"

\* C4: queued orchestrator: a failure of request N at any step is caught:
\* no speak promise ever rejects, and every enqueued request, also one
\* enqueued behind a request that fails, runs to completion.
C4_FailureIsolated ==
  /\ [](variant = "queue" => \A r \in Req : outcome[r] # "rejected")
  /\ \A r \in Req : (variant = "queue" /\ pc[r] = "queued") ~> (pc[r] = "done")

C4_Witness ==
  /\ variant = "queue"
  /\ outcome[1] = "logged"
  /\ proc[1] = "none"
  /\ outcome[2] = "resolved"

\* C5: preemptive orchestrator: once a later speak call has been made, an
\* earlier request no longer records its temp file in currentTempFile,
\* broadcasts lipsync-start, or spawns a playback process.
C5_NoEffectAfterSupersede ==
  [][\A a \in Req :
       (variant \in Preemptive /\ Superseded(a)) =>
         /\ Starts(a)' = Starts(a)
         /\ Count(evlog[a], "spawn")' = Count(evlog[a], "spawn")
         /\ (currentTempFile' = a => currentTempFile = a)]_vars

\* C6: preemptive orchestrator: every lipsync-start broadcast is matched by
\* exactly one lipsync-stop: never more stops than starts, and one stop
\* for each start once the playback process has closed.
C6_StartStopMatched ==
  variant \in Preemptive =>
    \A r \in Req :
      /\ Stops(r) <= Starts(r)
      /\ proc[r] = "closed" => Stops(r) = Starts(r)

\* C7: queued orchestrator: every request that reaches playback broadcasts
\* exactly one lipsync-start and exactly one lipsync-stop, also when the
\* playback process emits both error and close.
C7_QueuedStartStopPairs ==
  variant = "queue" =>
    \A r \in Req :
      /\ Stops(r) <= Starts(r)
      /\ proc[r] = "closed" => (Starts(r) = 1 /\ Stops(r) = 1)

\* In the event sequence s, every event e is preceded by an event of before.
Precedes(s, before, e) ==
  \A i \in 1..Len(s) : s[i] = e => \E j \in 1..(i - 1) : s[j] \in before

\* C8: within one request, in every copy, lipsync-start is broadcast after
\* the artifact is ready and before the player is spawned, and lipsync-stop
\* only after the playback has ended (close, error, or kill() by
\* stopCurrentPlayback); a single call that plays to the end yields
\* start, playback, stop.
C8_MotionOrder ==
  /\ \A r \in Req :
       /\ Precedes(evlog[r], {"artifact"}, "start")
       /\ Precedes(evlog[r], {"start"}, "spawn")
       /\ Precedes(evlog[r], {"kill", "error", "close"}, "stop")
  /\ (pc[2] = "idle" /\ outcome[1] = "resolved") =>
       evlog[1] = <<"artifact", "start", "spawn", "close", "stop">>

C8_Witness ==
  /\ pc[2] = "idle"
  /\ outcome[1] = "resolved"
  /\ proc[1] = "closed"

\* C9: preemptive orchestrator: at most one temp file exists at any time,
\* and it is the one recorded in currentTempFile.
C9_OneTempFile ==
  variant \in Preemptive => disk \subseteq {currentTempFile}

\* C10: in every copy, once all speak requests have finished, every temp
\* file created by any request has been unlinked.
C10_NoTempFileLeak ==
  AllFinished => disk = {}

\* C11: a playback error terminates only that request: once the error
\* handler has run, the request's temp file is deleted, a lipsync-stop has
\* been broadcast for it, and neither currentPlayProcess nor currentTempFile
\* still refers to it.
C11_PlaybackErrorCleansUp ==
  \A r \in Req :
    proc[r] = "errored" =>
      /\ r \notin disk
      /\ Stops(r) >= 1
      /\ currentPlayProcess # r
      /\ currentTempFile # r

\* C12: on shutdown the active audio artifact is cleaned up: once the quit
\* handler has run, no playback process is running and the current temp
\* file is deleted.
C12_QuitCleansUp ==
  quitted => (Running = {} /\ disk = {})

\* The synthesis service refused the connection of request r.
Refused(r) == failure[r] \in {"ECONNREFUSED", "fetch failed"}

\* C13: when the synthesis service refuses the connection, speak returns
\* normally (its promise does not reject), and the request broadcasts no
\* lipsync-start and creates no temp file and no playback process.
C13_RefusedReturnsNormally ==
  \A r \in Req :
    Refused(r) =>
      /\ outcome[r] # "rejected"
      /\ Starts(r) = 0
      /\ r \notin disk
      /\ proc[r] = "none"

\* C14: in the preemptive server a non-2xx response from audio_query or
\* synthesis makes the speak call reject (the handler answers 500) before
\* any lipsync-start, temp file or playback process, and the next speak
\* call, left to play to its end, runs its full pipeline.
C14_StatusFailureIsHard ==
  variant = "server" =>
    \A r \in Req :
      failure[r] = "status" =>
        /\ outcome[r] = "rejected"
        /\ speakStatus(outcome[r]) = 500
        /\ evlog[r] = <<>>
        /\ r \notin disk
        /\ proc[r] = "none"
        /\ \A q \in Req :
             (q = r + 1 /\ outcome[q] = "resolved" /\ ~Superseded(q)) =>
               evlog[q] = <<"artifact", "start", "spawn", "close", "stop">>

C14_Witness ==
  /\ variant = "server"
  /\ failure[1] = "status"
  /\ outcome[1] = "rejected"
  /\ outcome[2] = "resolved"
  /\ pc[3] = "idle"

NoDataTag == \A i \in 0..(Len(buffer) - 4) : ~TagAt(buffer, i)

\* One of the two fixed-offset reads of the header is outside the buffer.
ReadFails == Len(buffer) < 32

ByteRateZero == Len(buffer) >= 32 /\ readUInt32LE(buffer, 28) = 0

Canonical ==
  /\ wavIn.tagged
  /\ wavIn.length = FullLen(wavIn)
  /\ wavIn.sampleRate = "plain"
  /\ wavIn.byteRate # 0

\* C18: for a canonical buffer with a non-zero byte rate and a payload of
\* any length, zero included, getWavDuration returns exactly
\* floor(payloadSize / byteRate * 1000).
C18_DurationExact ==
  (wavPc = "done" /\ Canonical) =>
    wavResult = Returned((wavIn.payload * 1000) \div wavIn.byteRate)

\* The same for payloads of at least one byte.
C18_NonEmptyPayload ==
  (wavPc = "done" /\ Canonical /\ wavIn.payload > 0) =>
    wavResult = Returned((wavIn.payload * 1000) \div wavIn.byteRate)


\* C19: the session tailer never forwards the same message uuid to speech
\* twice, whatever the appends, notifications and rotations, also when the
\* second pass starts while the first still awaits the speech of the message.
C19_NoDuplicateForward ==
  \A i, j \in 1..Len(forwards) :
    forwards[i].uuid = forwards[j].uuid => i = j

\* C20: only messages written after the tailer started are forwarded: no
\* line that was in a log file of the directory when watching started.
C20_OnlyNewMessages ==
  \A i \in 1..Len(forwards) :
    forwards[i].uuid \notin {PreUuid(f) : f \in Files}


\* The forwards made by pass p.
ForwardedBy(p) == {forwards[i].idx : i \in {j \in 1..Len(forwards) : forwards[j].pass = p}}

\* A line that is an assistant message with text.
IsAssistantText(line) == Forwardable(line, {})

\* C21 as stated: a pass that follows a rotation starts at offset 0 and, once
\* it is over, has forwarded every assistant message of the whole file.
C21_RotationForwardsAll ==
  \A p \in Pass :
    passAt[p].rotated =>
      /\ passAt[p].from = 0
      /\ passAt[p].pc = "done" =>
           \A k \in 1..Len(passAt[p].lines) :
             IsAssistantText(passAt[p].lines[k].line) =>
               passAt[p].lines[k].idx \in ForwardedBy(p)

\* C21 amended: a callback that finds another file most recent adopts it
\* with offset 0; the pass that follows reads the file from its start and,
\* once it is over, has forwarded every assistant message of the whole file
\* except those whose uuid is in the processed set.
C21_RotationReadsWholeFile ==
  /\ [][\A w \in Watchers :
          (Len(timers') < Len(timers) /\ Head(timers) = w
             /\ currentSessionFile'[w] # currentSessionFile[w]) =>
            /\ currentSessionFile'[w] = Latest
            /\ \/ filePositions'[Latest] = 0
               \/ filePositions'[Latest] = Len(content[Latest])]_vars
  /\ [](\A p \in Pass :
          passAt[p].rotated =>
            /\ passAt[p].from = 0
            /\ passAt[p].pc = "done" =>
                 \A k \in 1..Len(passAt[p].lines) :
                   IsAssistantText(passAt[p].lines[k].line) =>
                     \/ passAt[p].lines[k].idx \in ForwardedBy(p)
                     \/ passAt[p].lines[k].line.uuid \in processedMessages)

\* A pass that followed a rotation is over, having read a file that held a
\* line before watching started and a new one, and forwarded both.
C21_Witness ==
  \E p \in Pass :
    /\ passAt[p].rotated
    /\ passAt[p].pc = "done"
    /\ passAt[p].file = "b.jsonl"
    /\ ForwardedBy(p) = {1, 2}


\* The step is a timer callback in which its watcher adopts file f.
RotatesTo(f) ==
  /\ Len(timers') < Len(timers)
  /\ currentSessionFile[Head(timers)] # f
  /\ currentSessionFile'[Head(timers)] = f

\* C22: the stored offset of a log file never decreases from one state to
\* the next, except in a rotation to that file; a truncated file leaves it
\* unchanged.
C22_OffsetMonotonic ==
  [][\A f \in Files :
       filePositions'[f] < filePositions[f] => RotatesTo(f)]_vars

\* The same, for the steps of the watcher proper: every step but the
\* callback of the projects root.
C22_MonotonicButRoot ==
  [][\A f \in Files :
       (filePositions'[f] < filePositions[f] /\ watcherCount' = watcherCount)
         => RotatesTo(f)]_vars


\* C23: however many notifications arrive before the timer fires, exactly
\* one timeout is pending, set by the last of them, and its callback runs
\* one pass after which none is pending.
C23_BurstCoalescing ==
  /\ [](IF burst = 0 THEN timers = <<>> ELSE Len(timers) = 1)
  /\ [][Len(timers') < Len(timers) => (timers' = <<>> /\ burst' = 0)]_vars

\* Two notifications have arrived within the window.
C23_Witness == burst = 2 /\ Len(timers) = 1 /\ ~crashed


\* Nothing is pending: no notification, no timeout, no awaited speech.
Quiet == pendingEvents = 0 /\ timers = <<>> /\ awaiting = <<>> /\ ~crashed

\* The lines of file f that were written in two parts after the watcher
\* started, both parts written.
SplitLines(f) ==
  {k \in (initialSize[f] + 1)..Len(content[f]) :
     content[f][k].part = "head" /\ k < Len(content[f])}

WasForwarded(u) == \E i \in 1..Len(forwards) : forwards[i].uuid = u

\* C24: a line read while only its first part is written is skipped and not
\* counted as processed, and once its write is complete and the file has
\* been read to its end the message has been forwarded.
C24_PartialLineTolerance ==
  /\ \A u \in processedMessages : WasForwarded(u)
  /\ (Quiet /\ faults = 0 /\ watcherCount = 1) =>
       \A w \in Watchers, f \in Files :
         (currentSessionFile[w] = f /\ filePositions[f] = Len(content[f])) =>
           \A k \in SplitLines(f) : WasForwarded(content[f][k].line.uuid)


\* The text segments of a content array in order, joined by line feeds;
\* empty when there is none.
RECURSIVE JoinedText(_)
JoinedText(segs) ==
  IF segs = <<>> THEN <<>>
  ELSE LET rest == JoinedText(Tail(segs))
           h == Head(segs)
       IN  IF h.type # "text" \/ h.text = <<>> THEN rest
           ELSE IF rest = <<>> THEN h.text
           ELSE h.text \o <<10>> \o rest

\* C25: a forwarded line is JSON of type assistant with message.role
\* assistant and a content array with a non-empty text segment, the text
\* forwarded is its text segments in order joined by line feeds, and only
\* the uuid of a forwarded line is added to processedMessages.
C25_ForwardsAssistantText ==
  /\ [](\A i \in 1..Len(forwards) :
          LET c == content[forwards[i].file][forwards[i].idx]
          IN  /\ c.part = "whole"
              /\ c.line.type = "assistant"
              /\ c.line.role = "assistant"
              /\ c.line.isArray
              /\ JoinedText(c.line.content) # <<>>
              /\ forwards[i].text = JoinedText(c.line.content))
  /\ [][\A u \in processedMessages' \ processedMessages :
          \E i \in 1..Len(forwards) : forwards[i].uuid = u]_vars

\* A line with two text segments around nothing else was forwarded and its
\* pass is over, the line after it passed over as processed.
C25_Witness ==
  /\ Len(forwards) = 1
  /\ forwards[1].text = Hi \o <<10>> \o Yo
  /\ Len(content["a.jsonl"]) = 2
  /\ passAt[1].pc = "done"
  /\ processedMessages = {"u1"}


\* The texts of the calls of broadcast at which channel c was OPEN, in the
\* order of the calls.
RECURSIVE DueTo(_, _)
DueTo(c, k) ==
  IF k = 0 THEN <<>>
  ELSE IF c \in calls[k].open THEN Append(DueTo(c, k - 1), calls[k].event)
  ELSE DueTo(c, k - 1)

\* C26: every channel has received, once each and in the order of the
\* calls, the events of the calls of broadcast at which it was OPEN, and
\* nothing else.
C26_BroadcastToOpen ==
  \A c \in Channels : received[c] = DueTo(c, Len(calls))

\* Two broadcasts were made, the first with both channels OPEN and the
\* second with one of them closing.
C26_Witness ==
  /\ Len(calls) = 2
  /\ calls[1].open = Channels
  /\ readyState["c1"] = "CLOSING"
  /\ calls[2].open = {"c2"}
  /\ Len(received["c2"]) = 2
  /\ Len(received["c1"]) = 1


\* The expressions the documentation of the endpoint lists.
Documented == {"smile", "shock", "suprise", "eye_sparkle", "normal"}

\* C28: POST /expression with a documented name answers 200 and broadcasts
\* the expression event with the given duration, or 3000 ms without one;
\* with any other name or none it answers 400 and broadcasts nothing.
C28_ExpressionEndpoint ==
  /\ \A i \in 1..Len(httpLog) :
       LET r == httpLog[i]
       IN  IF r.name \in Documented
             THEN /\ r.status = 200
                  /\ r.cast \in 1..Len(calls)
                  /\ calls[r.cast].event =
                       [type |-> "expression", name |-> r.name,
                        duration |-> IF r.duration = NoDuration
                                       THEN EXPRESSION_DURATION_MS
                                       ELSE r.duration]
             ELSE r.status = 400 /\ r.cast = 0
  /\ \A k \in 1..Len(calls) :
       calls[k].event.type = "expression" =>
         \E i \in 1..Len(httpLog) : httpLog[i].cast = k


\* C27: a failure in a read pass (the file gone at the size query, a read
\* error, a line that does not parse) ends that pass only: no exception
\* leaves the timer callback, so the process lives on and later
\* notifications start passes.
C27_PassFailureContained ==
  [][faults' > faults => ~crashed']_vars


\* C29: a pass stores the size it observed as the offset before it parses,
\* and it reads from where the last pass of the same file ended (from 0
\* after a rotation): the ranges of successive passes are disjoint and
\* leave no gap.
C29_RangesContiguous ==
  [][passCount' > passCount =>
       LET at == passAt'[passCount']
       IN  /\ at.from = (IF at.rotated THEN 0 ELSE lastRead[at.file])
           /\ at.to = filePositions'[at.file]
           /\ at.to = Len(content[at.file])]_vars


\* C30: the messages of one log file are handed to speech in the order of
\* their lines, also when a pass starts while an earlier one awaits speech.
C30_ForwardsInLineOrder ==
  \A i, j \in 1..Len(forwards) :
    (i < j /\ forwards[i].file = forwards[j].file) =>
      forwards[i].idx < forwards[j].idx


\* C31: a notification delivered to the watcher of a directory is
\* eventually followed by a read pass of that directory, also when a
\* notification of another directory comes before the timeout fires.
C31_EveryDirectoryRead ==
  \A w \in 1..2 : (w \in owed) ~> (w \notin owed)


\* C32: the watched directory is initialised once: no step registers one
\* more watcher for it, and the stored offset of a file only moves forward
\* to the end of a range that a pass has read.
C32_InitialisedOnce ==
  [][/\ watcherCount' = watcherCount
     /\ \A f \in Files :
          filePositions'[f] > filePositions[f] =>
            lastRead'[f] = filePositions'[f]]_vars


\* C33: queued orchestrator: the promise a speak call returned is settled
\* exactly when the pipeline of that request has ended: not while the
\* request is queued or running, and not only once later requests have run.
C33_PromiseOfOwnPipeline ==
  variant = "queue" =>
    \A r \in Req :
      pc[r] # "idle" => (Settled(speakPromise[r]) <=> pc[r] = "done")

\* The first request has ended, the second plays and the third is queued.
C33_Witness ==
  /\ variant = "queue"
  /\ pc[1] = "done"
  /\ Settled(speakPromise[1])
  /\ pc[2] = "play"
  /\ pc[3] = "queued"


\* The messages of the log file that have been handed on, as far as a
\* message is known by its uuid: a line without uuid is only itself.
Delivered(f, k) ==
  \E i \in 1..Len(forwards) :
    /\ forwards[i].file = f
    /\ \/ forwards[i].idx = k
       \/ /\ content[f][k].line.uuid # NoUuid
          /\ forwards[i].uuid = content[f][k].line.uuid

\* C34: once the lines appended after the start have been read and the
\* pass is over, every assistant message with text among them has been
\* forwarded, also those without uuid: the first does not suppress the next.
C34_NoUuidForwarded ==
  (Quiet /\ passCount > 0 /\ \A p \in Pass : passAt[p].pc # "speaking") =>
    \A k \in 1..Len(content["a.jsonl"]) :
      (/\ k <= filePositions["a.jsonl"]
       /\ content["a.jsonl"][k].part = "whole"
       /\ IsAssistantText(content["a.jsonl"][k].line)) => Delivered("a.jsonl", k)


\* The expression events broadcast so far.
ExpressionEvents ==
  Cardinality({k \in 1..Len(calls) : calls[k].event.type = "expression"})

\* C35: a call of formatClaudeMessage that returns a message has broadcast
\* exactly one expression event, and one that returns null has broadcast
\* none.
C35_OneExpressionPerMessage ==
  fmtPc = "returned" =>
    ExpressionEvents = (IF fmtResult = "null" THEN 0 ELSE 1)

\* A tool message was returned and its expression broadcast.
C35_Witness ==
  /\ fmtPc = "returned"
  /\ fmtResult = "tool"
  /\ ExpressionEvents = 1
  /\ calls[1].event.name = "eye_sparkle"


\* C36: an animation that runs has its own auto-stop still ahead, and an
\* animation is stopped only by a call of stopLipsync or by the auto-stop
\* timeout of the startLipsync call that started it, never by the timeout
\* of an earlier call.
C36_OwnAutoStopOnly ==
  /\ lipsyncInterval # 0 => lipsyncInterval \in autoStops
  /\ lastStop.by = "timer" => lastStop.timer = lastStop.anim

\* C37: a call of connectToVTS eventually resolves, whatever the service
\* does.
C37_ConnectResolves ==
  (connPc \in {"connecting", "authenticating", "requestingToken"})
    ~> (connPc = "resolved")

============================================================================
